---- MODULE Spec2Model ----
(***************************************************************************)
(* Model of src/audio_plot_graph.py: the loudness pipeline (main), the     *)
(* loudness analysis (compute_loudness), the smoother (moving_average),    *)
(* the highlight mask (highlight_audio_section) and the renderer's         *)
(* highlight loop (plot_loudness).                                         *)
(*                                                                         *)
(* Real numbers are kept exact: a time is a rational [num, den], a         *)
(* smoothed value is a rational [num, den], and a decibel value is kept as *)
(* the frame's sum of squares and length, from which its position relative *)
(* to -100 dB and 0 dB is decided exactly.                                 *)
(***************************************************************************)
EXTENDS Integers, Sequences, FiniteSets, TLC

VARIABLES
    pc,          \* main: the statement main is at
    visited,     \* main: the stages started, in order
    assetExists, \* whether temp_audio.wav exists on disk
    log,         \* what main has printed, in order
    propagated,  \* whether an exception left main
    input,       \* main: the video and the highlights it was called with
    locals,      \* main: the locals sr, audio, times, loudness_db, loudness_db_smooth
    clCall,      \* one call of compute_loudness: arguments, position, result
    maCall,      \* one call of moving_average
    hlCall,      \* one call of highlight_audio_section
    plCall,      \* one call of plot_loudness
    exited       \* whether main has returned (or been left by an exception)

vars == <<pc, visited, assetExists, log, propagated, input, locals,
          clCall, maCall, hlCall, plCall, exited>>

----------------------------------------------------------------------------
(* Bounds of the model *)

\* longest waveform over the full sample set
MaxLen == 3
\* longest waveform over the quiet samples 0 and 1
MaxQuietLen == 10
\* longest waveform of a pipeline run
MaxAudio == 4
\* longest series given to moving_average, and its largest window_size
MaxSeries == 4
MaxWindow == 5
\* longest loudness series given to highlight_audio_section, and its latest time
MaxFrames == 3
MaxTime == 4
\* longest highlight list given to plot_loudness
MaxHighlights == 3

----------------------------------------------------------------------------
(* Arithmetic helpers *)

Min(a, b) == IF a <= b THEN a ELSE b

Max(a, b) == IF a >= b THEN a ELSE b

SeqsUpTo(S, n) == UNION {[1..k -> S] : k \in 0..n}

\* Python int(num / den) for den > 0: truncation toward zero
IntTrunc(num, den) == IF num >= 0 THEN num \div den ELSE -((-num) \div den)

\* mutant: the frame count rounded down, losing the shorter trailing frame
FloorDivMutant(a, b) == IF b > 0 THEN a \div b ELSE -(a \div (-b))

\* int(np.ceil(a / b)) for a >= 0 and b # 0 of either sign
CeilDiv(a, b) == IF b > 0 THEN (a + b - 1) \div b ELSE -(a \div (-b))

\* Python audio[start:end] for 0 <= start and 0 <= end (the slice clamps at len)
PySlice(s, start, end) == SubSeq(s, start + 1, Min(end, Len(s)))

----------------------------------------------------------------------------
(* compute_loudness *)

\* 2**15, the normalisation constant of the decibel conversion
FullScale == 32768

\* 5^10 and 2^20: db >= -100 iff rms/2^15 >= 10^-5 iff ss * 5^10 >= n * 2^20
Pow5_10 == 5^10

Pow2_20 == 2^20

\* frame_size = int(sr * frame_duration); frame_duration is the rational fd.num/fd.den
FrameSize(sr, fd) == IntTrunc(sr * fd.num, fd.den)

\* sum of frame.astype(float) ** 2, as the two-limb number hi * 2^15 + lo
\* (a square is at most 2^30, so the sum of a frame's squares needs two limbs)
RECURSIVE SumHi(_)
SumHi(frame) ==
    IF frame = <<>> THEN 0
    ELSE ((Head(frame) * Head(frame)) \div FullScale) + SumHi(Tail(frame))

RECURSIVE SumLo(_)
SumLo(frame) ==
    IF frame = <<>> THEN 0
    ELSE ((Head(frame) * Head(frame)) % FullScale) + SumLo(Tail(frame))

SumSq(frame) ==
    [hi |-> SumHi(frame) + (SumLo(frame) \div FullScale),
     lo |-> SumLo(frame) % FullScale]

\* rms < 1e-10: mean square below 1e-20, which for integer samples and a frame
\* shorter than 10^20 samples is a sum of squares of zero
RmsBelowEps(ss, n) == ss.hi = 0 /\ ss.lo = 0

\* db of one frame: -100, or 20 * log10(rms / 2**15) kept as (sum of squares, n)
FrameDb(frame) ==
    LET ss == SumSq(frame)
        n  == Len(frame)
    IN  IF RmsBelowEps(ss, n)
        THEN [floor |-> TRUE, ss |-> ss, n |-> n]
        ELSE [floor |-> FALSE, ss |-> ss, n |-> n]

\* the loop of compute_loudness over i in range(n_frames), from frame i on
RECURSIVE LoudnessLoop(_, _, _, _, _, _)
LoudnessLoop(audio, sr, frame_size, n_frames, i, acc) ==
    IF i >= n_frames THEN acc
    ELSE LET start == i * frame_size
             end   == Min((i + 1) * frame_size, Len(audio))
             frame == PySlice(audio, start, end)
         IN  IF Len(frame) = 0
             THEN LoudnessLoop(audio, sr, frame_size, n_frames, i + 1, acc)
             ELSE LoudnessLoop(audio, sr, frame_size, n_frames, i + 1,
                      [times       |-> Append(acc.times, [num |-> start, den |-> sr]),
                       loudness_db |-> Append(acc.loudness_db, FrameDb(frame)),
                       frames      |-> Append(acc.frames, frame)])

EmptySeries == [times |-> <<>>, loudness_db |-> <<>>, frames |-> <<>>]

\* compute_loudness(audio, sr, frame_duration): a division by a zero frame_size
\* raises ZeroDivisionError, re-raised as RuntimeError; a negative frame_size
\* makes n_frames <= 0 and the loop body never runs
ComputeLoudness(audio, sr, fd) ==
    LET frame_size == FrameSize(sr, fd)
    IN  IF frame_size = 0
        THEN [raised |-> TRUE, frame_size |-> frame_size, series |-> EmptySeries]
        ELSE [raised |-> FALSE, frame_size |-> frame_size,
              series |-> LoudnessLoop(audio, sr, frame_size,
                                      CeilDiv(Len(audio), frame_size), 0, EmptySeries)]

\* comparisons of a decibel value with the two ends of [-100, 0]
DbAtMostZero(v) ==
    \/ v.floor
    \/ v.ss.hi < v.n * FullScale
    \/ (v.ss.hi = v.n * FullScale /\ v.ss.lo = 0)

\* ss * 5^10 >= n * 2^20, with ss an integer: ss >= ceil(n * 2^20 / 5^10)
DbAtLeastFloor(v) ==
    LET t == CeilDiv(v.n * Pow2_20, Pow5_10)
    IN  \/ v.floor
        \/ v.ss.hi > t \div FullScale
        \/ (v.ss.hi = t \div FullScale /\ v.ss.lo >= t % FullScale)

DbIsFloor(v) ==
    \/ v.floor
    \/ /\ (v.n * Pow2_20) % Pow5_10 = 0
       /\ v.ss.hi = ((v.n * Pow2_20) \div Pow5_10) \div FullScale
       /\ v.ss.lo = ((v.n * Pow2_20) \div Pow5_10) % FullScale

----------------------------------------------------------------------------
(* moving_average: np.convolve(data, np.ones(window_size)/window_size, 'same') *)

\* sum of s[j] over the 0-based indices j in lo..hi
RECURSIVE SumRange(_, _, _)
SumRange(s, lo, hi) ==
    IF lo > hi THEN 0 ELSE s[lo + 1] + SumRange(s, lo + 1, hi)

\* window_size times element k (0-based) of the full convolution of data with
\* the kernel of window_size equal weights: the data[j] with 0 <= k - j < window_size
FullConvolve(data, window_size, k) ==
    SumRange(data, Max(0, k - window_size + 1), Min(Len(data) - 1, k))

\* np.convolve raises ValueError when either array is empty (np.ones of a
\* negative size raises as well)
ConvolveRaises(n, window_size) == n = 0 \/ window_size <= 0

\* mode 'same' returns max(len(data), len(kernel)) elements
ConvolveSameLen(n, window_size) == Max(n, window_size)

\* mode 'same' keeps the full convolution from this offset on: the shorter of
\* the two arrays, of length m, leaves m - 1 - m // 2 partial sums to the left
ConvolveSameOffset(n, window_size) ==
    (Min(n, window_size) - 1) - (Min(n, window_size) \div 2)

\* moving_average(data, window_size); each element is the rational num/den
MovingAverage(data, window_size) ==
    IF ConvolveRaises(Len(data), window_size)
    THEN [raised |-> TRUE, result |-> <<>>]
    ELSE [raised |-> FALSE,
          result |-> [i \in 1..ConvolveSameLen(Len(data), window_size) |->
                        [num |-> FullConvolve(data, window_size,
                                     i - 1 + ConvolveSameOffset(Len(data), window_size)),
                         den |-> window_size]]]

----------------------------------------------------------------------------
(* highlight_audio_section *)

\* the colour tokens matplotlib accepts, among the tokens of the model
KnownColors == {"blue", "red", "gray"}

\* numpy's element-wise comparisons of an array with a scalar
GreaterEqual(arr, x) == [i \in 1..Len(arr) |-> arr[i] >= x]

LessEqual(arr, x) == [i \in 1..Len(arr) |-> arr[i] <= x]

\* mutant: the threshold itself counts as above it
GreaterInclusiveMutant(arr, x) == [i \in 1..Len(arr) |-> arr[i] >= x]

Greater(arr, x) == [i \in 1..Len(arr) |-> arr[i] > x]

Less(arr, x) == [i \in 1..Len(arr) |-> arr[i] < x]

\* numpy's element-wise & of two boolean arrays of one length
ArrayAnd(a, b) == [i \in 1..Len(a) |-> a[i] /\ b[i]]

\* condition of highlight_audio_section
HighlightCondition(times, loudness, h) ==
    IF h.above
    THEN ArrayAnd(ArrayAnd(GreaterEqual(times, h.start_time),
                           LessEqual(times, h.end_time)),
                  Greater(loudness, h.threshold))
    ELSE ArrayAnd(ArrayAnd(GreaterEqual(times, h.start_time),
                           LessEqual(times, h.end_time)),
                  Less(loudness, h.threshold))

\* ax.fill_between raises on a colour token it does not know
FillBetweenRaises(h) == h.color \notin KnownColors

\* highlight_audio_section(ax, times, loudness, **h): the overlay it adds to
\* the axes, or the RuntimeError it raises
HighlightAudioSection(times, loudness, h) ==
    IF FillBetweenRaises(h)
    THEN [raised |-> TRUE, where |-> <<>>, spec |-> h]
    ELSE [raised |-> FALSE, where |-> HighlightCondition(times, loudness, h), spec |-> h]

----------------------------------------------------------------------------
(* plot_loudness *)

\* the two fixed reference lines
HighAudioDb == -22

LowAudioDb == -26

Artist(kind, y, index, where) ==
    [kind |-> kind, y |-> y, index |-> index, where |-> where]

\* mutant: a highlight that raises ends the loop and the render
HighlightFailedAbortsMutant(acc, i) ==
    [drawn     |-> acc.drawn,
     evaluated |-> Append(acc.evaluated, i),
     warnings  |-> acc.warnings,
     stopped   |-> TRUE]

\* what a highlight that raised leaves behind: the warning, nothing drawn
HighlightFailed(acc, i) ==
    [drawn     |-> acc.drawn,
     evaluated |-> Append(acc.evaluated, i),
     warnings  |-> Append(acc.warnings, i),
     stopped   |-> FALSE]

\* the loop over highlights, from the i-th on (1-based), each in its own try
RECURSIVE HighlightLoop(_, _, _, _, _)
HighlightLoop(times, loudness, highlights, i, acc) ==
    IF i > Len(highlights) \/ acc.stopped THEN acc
    ELSE LET r == HighlightAudioSection(times, loudness, highlights[i])
         IN  HighlightLoop(times, loudness, highlights, i + 1,
                 IF r.raised
                 THEN HighlightFailed(acc, i)
                 ELSE [drawn     |-> Append(acc.drawn, Artist("fill", r.spec.threshold, i, r.where)),
                       evaluated |-> Append(acc.evaluated, i),
                       warnings  |-> acc.warnings,
                       stopped   |-> FALSE])

\* whether plot_loudness raises for a reason other than a highlight: the style
\* or the figure cannot be set up, ax.plot gets x and y of different lengths,
\* times[-1] of an empty series, or a later drawing call fails
PlotAborts(nTimes, nLoudness, env) ==
    \/ ~env.style_ok
    \/ nTimes # nLoudness
    \/ nTimes = 0
    \/ ~env.finish_ok

\* plot_loudness(times, loudness, save_path, highlights)
PlotLoudness(times, loudness, highlights, env) ==
    LET none == [drawn |-> <<>>, evaluated |-> <<>>, warnings |-> <<>>, stopped |-> FALSE]
        base == [none EXCEPT !.drawn = <<Artist("curve", 0, 0, <<>>),
                                         Artist("axhline", HighAudioDb, 0, <<>>),
                                         Artist("axhline", LowAudioDb, 0, <<>>)>>]
        loop == HighlightLoop(times, loudness, highlights, 1, base)
    IN  IF ~env.style_ok \/ Len(times) # Len(loudness)
        THEN [raised |-> TRUE, drawn |-> <<>>, evaluated |-> <<>>,
              warnings |-> <<>>, saved |-> FALSE]
        ELSE [raised    |-> loop.stopped \/ PlotAborts(Len(times), Len(loudness), env),
              drawn     |-> loop.drawn,
              evaluated |-> loop.evaluated,
              warnings  |-> loop.warnings,
              saved     |-> ~loop.stopped /\ ~PlotAborts(Len(times), Len(loudness), env)
                            /\ env.save_ok]

----------------------------------------------------------------------------
(* main *)

\* FRAME_DURATION = 0.1
FRAME_DURATION == [num |-> 1, den |-> 10]

smooth_window == 3

StageOrder == <<"Extracting", "Loading", "Analyzing", "Smoothing", "Rendering">>

Stages == {StageOrder[i] : i \in 1..Len(StageOrder)}

StageIndex(stage) == CHOOSE i \in 1..Len(StageOrder) : StageOrder[i] = stage

\* mutant: each stage caught on its own, so the stage after a failed one still runs
AfterStageContinuesMutant(stage, failed) ==
    IF StageIndex(stage) = Len(StageOrder)
    THEN (IF failed THEN "Failed" ELSE "Done")
    ELSE StageOrder[StageIndex(stage) + 1]

\* the try block: a stage that raises leaves it for the except clause, a stage
\* that returns is followed by the next statement
AfterStage(stage, failed) ==
    IF failed THEN "Failed"
    ELSE IF StageIndex(stage) = Len(StageOrder) THEN "Done"
    ELSE StageOrder[StageIndex(stage) + 1]

MainError(stage) == [msg |-> "Error in main", stage |-> stage]

RemoveError == [msg |-> "Error removing temp audio file", stage |-> "Finally"]

\* except Exception as err: print(f"Error in main: {err}")
MainExcept(lg, stage, failed) == IF failed THEN Append(lg, MainError(stage)) ELSE lg

\* mutant: the removal at the end of the try block, skipped when a stage raised
CleanupOnSuccessOnlyMutant(exists, remove_ok, lg) ==
    IF exists /\ lg = <<>>
    THEN IF remove_ok
         THEN [assetExists |-> FALSE, log |-> lg, propagated |-> FALSE]
         ELSE [assetExists |-> TRUE, log |-> Append(lg, RemoveError), propagated |-> FALSE]
    ELSE [assetExists |-> exists, log |-> lg, propagated |-> FALSE]

\* mutant: os.remove outside any try, so its failure leaves main
CleanupUnguardedMutant(exists, remove_ok, lg) ==
    IF exists
    THEN IF remove_ok
         THEN [assetExists |-> FALSE, log |-> lg, propagated |-> FALSE]
         ELSE [assetExists |-> TRUE, log |-> lg, propagated |-> TRUE]
    ELSE [assetExists |-> FALSE, log |-> lg, propagated |-> FALSE]

\* the finally clause: remove the asset if it exists, report a failed removal
Cleanup(exists, remove_ok, lg) ==
    IF exists
    THEN IF remove_ok
         THEN [assetExists |-> FALSE, log |-> lg, propagated |-> FALSE]
         ELSE [assetExists |-> TRUE, log |-> Append(lg, RemoveError), propagated |-> FALSE]
    ELSE [assetExists |-> FALSE, log |-> lg, propagated |-> FALSE]

\* extract_audio_from_video: whether it raises, and whether the asset exists after
ExtractAudioFromVideo(exists, has_audio, open_ok, write_ok, partial) ==
    IF ~open_ok THEN [raised |-> TRUE, assetExists |-> exists]
    ELSE IF ~has_audio THEN [raised |-> TRUE, assetExists |-> exists]
    ELSE IF write_ok THEN [raised |-> FALSE, assetExists |-> TRUE]
    ELSE [raised |-> TRUE, assetExists |-> exists \/ partial]

----------------------------------------------------------------------------
(* The pipeline: one invocation of main *)

NoCall == [pc |-> "idle"]

NoLocals == [sr |-> 0, audio |-> <<>>, times |-> <<>>, loudness_db |-> <<>>, nSmooth |-> 0]

InitMain ==
    /\ pc = "Extracting"
    /\ visited = <<>>
    /\ assetExists \in BOOLEAN
    /\ log = <<>>
    /\ propagated = FALSE
    /\ exited = FALSE
    /\ input \in [has_audio : BOOLEAN, sr : {5, 10, 20},
                  audio : SeqsUpTo({0, 1}, MaxAudio)]
    /\ locals = NoLocals
    /\ clCall = NoCall /\ maCall = NoCall /\ hlCall = NoCall /\ plCall = NoCall

\* one stage of the try block has run: raised or returned
StageRan(stage, failed) ==
    /\ visited' = Append(visited, stage)
    /\ pc' = AfterStage(stage, failed)
    /\ log' = MainExcept(log, stage, failed)
    /\ UNCHANGED <<propagated, exited, input, clCall, maCall, hlCall, plCall>>

Extract ==
    /\ pc = "Extracting"
    /\ \E open_ok, write_ok, partial \in BOOLEAN :
          LET r == ExtractAudioFromVideo(assetExists, input.has_audio,
                                         open_ok, write_ok, partial)
          IN  /\ assetExists' = r.assetExists
              /\ StageRan("Extracting", r.raised)
    /\ UNCHANGED locals

\* read_audio: wavfile.read raises or returns the sample rate and the samples
Load ==
    /\ pc = "Loading"
    /\ \E read_ok \in BOOLEAN :
          /\ locals' = IF read_ok
                       THEN [locals EXCEPT !.sr = input.sr, !.audio = input.audio]
                       ELSE locals
          /\ StageRan("Loading", ~read_ok)
    /\ UNCHANGED assetExists

Analyze ==
    /\ pc = "Analyzing"
    /\ LET r == ComputeLoudness(locals.audio, locals.sr, FRAME_DURATION)
       IN  /\ locals' = IF r.raised THEN locals
                        ELSE [locals EXCEPT !.times = r.series.times,
                                            !.loudness_db = r.series.loudness_db]
           /\ StageRan("Analyzing", r.raised)
    /\ UNCHANGED assetExists

Smooth ==
    /\ pc = "Smoothing"
    /\ LET n == Len(locals.loudness_db)
           failed == ConvolveRaises(n, smooth_window)
       IN  /\ locals' = IF failed THEN locals
                        ELSE [locals EXCEPT !.nSmooth = ConvolveSameLen(n, smooth_window)]
           /\ StageRan("Smoothing", failed)
    /\ UNCHANGED assetExists

Render ==
    /\ pc = "Rendering"
    /\ \E style_ok, finish_ok, save_ok \in BOOLEAN :
          StageRan("Rendering",
                   PlotAborts(Len(locals.times), locals.nSmooth,
                              [style_ok |-> style_ok, finish_ok |-> finish_ok,
                               save_ok |-> save_ok]))
    /\ UNCHANGED <<assetExists, locals>>

Finally ==
    /\ pc \in {"Done", "Failed"}
    /\ ~exited
    /\ \E remove_ok \in BOOLEAN :
          LET r == Cleanup(assetExists, remove_ok, log)
          IN  /\ assetExists' = r.assetExists
              /\ log' = r.log
              /\ propagated' = r.propagated
    /\ exited' = TRUE
    /\ UNCHANGED <<pc, visited, input, locals, clCall, maCall, hlCall, plCall>>

Next == Extract \/ Load \/ Analyze \/ Smooth \/ Render \/ Finally

Spec == InitMain /\ [][Next]_vars

----------------------------------------------------------------------------
(* Calls of the functions on their own *)

MainIdle ==
    /\ pc = "Idle" /\ visited = <<>> /\ assetExists = FALSE /\ log = <<>>
    /\ propagated = FALSE /\ exited = FALSE
    /\ input = [has_audio |-> FALSE, sr |-> 0, audio |-> <<>>]
    /\ locals = NoLocals

mainVars == <<pc, visited, assetExists, log, propagated, exited, input, locals>>

\* 16-bit signed PCM samples
Samples == {-32768, -1, 0, 1, 32767}

QuietSamples == {0, 1}

Waveforms == SeqsUpTo(Samples, MaxLen) \cup SeqsUpTo(QuietSamples, MaxQuietLen)

FrameDurations == {[num |-> n, den |-> 10] : n \in {-10, 0, 1, 4, 10, 20}}

InitLoudness ==
    /\ MainIdle
    /\ clCall \in [pc : {"call"}, audio : Waveforms, sr : {1, 5, 10},
                   frame_duration : FrameDurations, ret : {EmptySeries},
                   frame_size : {0}]
    /\ maCall = NoCall /\ hlCall = NoCall /\ plCall = NoCall

LoudnessReturns ==
    /\ clCall.pc = "call"
    /\ LET r == ComputeLoudness(clCall.audio, clCall.sr, clCall.frame_duration)
       IN  /\ ~r.raised
           /\ clCall' = [clCall EXCEPT !.pc = "returned", !.ret = r.series,
                                       !.frame_size = r.frame_size]
    /\ UNCHANGED <<mainVars, maCall, hlCall, plCall>>

LoudnessRaises ==
    /\ clCall.pc = "call"
    /\ LET r == ComputeLoudness(clCall.audio, clCall.sr, clCall.frame_duration)
       IN  /\ r.raised
           /\ clCall' = [clCall EXCEPT !.pc = "raised", !.frame_size = r.frame_size]
    /\ UNCHANGED <<mainVars, maCall, hlCall, plCall>>

NextLoudness == LoudnessReturns \/ LoudnessRaises

SpecLoudness == InitLoudness /\ [][NextLoudness]_vars

InitSmooth ==
    /\ MainIdle
    /\ maCall \in [pc : {"call"}, data : SeqsUpTo({-2, 0, 3}, MaxSeries),
                   window_size : 0..MaxWindow, ret : {<<>>}]
    /\ clCall = NoCall /\ hlCall = NoCall /\ plCall = NoCall

SmoothReturns ==
    /\ maCall.pc = "call"
    /\ LET r == MovingAverage(maCall.data, maCall.window_size)
       IN  /\ ~r.raised
           /\ maCall' = [maCall EXCEPT !.pc = "returned", !.ret = r.result]
    /\ UNCHANGED <<mainVars, clCall, hlCall, plCall>>

SmoothRaises ==
    /\ maCall.pc = "call"
    /\ MovingAverage(maCall.data, maCall.window_size).raised
    /\ maCall' = [maCall EXCEPT !.pc = "raised"]
    /\ UNCHANGED <<mainVars, clCall, hlCall, plCall>>

NextSmooth == SmoothReturns \/ SmoothRaises

SpecSmooth == InitSmooth /\ [][NextSmooth]_vars

\* a loudness series: frame i starts at i * step, values in dB
LoudnessSeries ==
    UNION {{[times |-> [i \in 1..n |-> (i - 1) * step], loudness |-> v] :
                v \in [1..n -> {-30, -24, -10}]} :
           n \in 0..MaxFrames, step \in {1, 2}}

HighlightSpecs(colors) ==
    [start_time : 0..MaxTime, end_time : 0..MaxTime, threshold : {-26, -24},
     color : colors, above : BOOLEAN]

InitHighlight ==
    /\ MainIdle
    /\ hlCall \in [pc : {"call"}, series : LoudnessSeries,
                   h : HighlightSpecs({"blue", "bogus"}), where : {<<>>}]
    /\ clCall = NoCall /\ maCall = NoCall /\ plCall = NoCall

HighlightReturns ==
    /\ hlCall.pc = "call"
    /\ LET r == HighlightAudioSection(hlCall.series.times, hlCall.series.loudness, hlCall.h)
       IN  /\ ~r.raised
           /\ hlCall' = [hlCall EXCEPT !.pc = "returned", !.where = r.where]
    /\ UNCHANGED <<mainVars, clCall, maCall, plCall>>

HighlightRaises ==
    /\ hlCall.pc = "call"
    /\ HighlightAudioSection(hlCall.series.times, hlCall.series.loudness, hlCall.h).raised
    /\ hlCall' = [hlCall EXCEPT !.pc = "raised"]
    /\ UNCHANGED <<mainVars, clCall, maCall, plCall>>

NextHighlight == HighlightReturns \/ HighlightRaises

SpecHighlight == InitHighlight /\ [][NextHighlight]_vars

\* the highlight specs a render is given: two that evaluate, one that raises
RenderSpecs ==
    {[start_time |-> 0, end_time |-> 1, threshold |-> -26, color |-> "blue", above |-> FALSE],
     [start_time |-> 1, end_time |-> 2, threshold |-> -22, color |-> "red", above |-> TRUE],
     [start_time |-> 0, end_time |-> 2, threshold |-> -26, color |-> "bogus", above |-> FALSE]}

RenderSeries ==
    {[times |-> <<>>, loudness |-> <<>>],
     [times |-> <<0>>, loudness |-> <<-30>>],
     [times |-> <<0, 1>>, loudness |-> <<-30, -10>>],
     [times |-> <<0, 1>>, loudness |-> <<-30, -10, -10>>]}

NoPlot == [raised |-> FALSE, drawn |-> <<>>, evaluated |-> <<>>, warnings |-> <<>>,
           saved |-> FALSE]

InitPlot ==
    /\ MainIdle
    /\ plCall \in [pc : {"call"}, series : RenderSeries,
                   highlights : SeqsUpTo(RenderSpecs, MaxHighlights),
                   env : [style_ok : BOOLEAN, finish_ok : BOOLEAN, save_ok : BOOLEAN],
                   ret : {NoPlot}]
    /\ clCall = NoCall /\ maCall = NoCall /\ hlCall = NoCall

PlotReturns ==
    /\ plCall.pc = "call"
    /\ LET r == PlotLoudness(plCall.series.times, plCall.series.loudness,
                             plCall.highlights, plCall.env)
       IN  /\ ~r.raised
           /\ plCall' = [plCall EXCEPT !.pc = "returned", !.ret = r]
    /\ UNCHANGED <<mainVars, clCall, maCall, hlCall>>

PlotRaises ==
    /\ plCall.pc = "call"
    /\ LET r == PlotLoudness(plCall.series.times, plCall.series.loudness,
                             plCall.highlights, plCall.env)
       IN  /\ r.raised
           /\ plCall' = [plCall EXCEPT !.pc = "raised", !.ret = r]
    /\ UNCHANGED <<mainVars, clCall, maCall, hlCall>>

NextPlot == PlotReturns \/ PlotRaises

SpecPlot == InitPlot /\ [][NextPlot]_vars

----------------------------------------------------------------------------
(* Properties of the pipeline (Spec) *)

Last(s) == s[Len(s)]

Range(s) == {s[i] : i \in 1..Len(s)}

IsPrefix(s, t) == Len(s) <= Len(t) /\ \A i \in 1..Len(s) : s[i] = t[i]

\* C1: when main exits, on whichever path, temp_audio.wav does not exist,
\* unless its removal itself failed (and was reported)
C1_AssetRemovedOnExit ==
    (exited /\ RemoveError \notin Range(log)) => ~assetExists

\* an invocation that failed after the asset was written, and removed it
C1_Witness ==
    /\ exited /\ pc = "Failed" /\ Len(visited) >= 3
    /\ ~assetExists /\ RemoveError \notin Range(log)

\* C2: no failure of a stage or of the removal leaves main; a failed stage is
\* reported first, and a failed removal is reported after it, in addition
C2_FailuresLoggedNotPropagated ==
    /\ ~propagated
    /\ pc = "Failed" =>
          /\ Len(log) >= 1
          /\ log[1] = MainError(Last(visited))
    /\ pc = "Done" => MainError(Last(visited)) \notin Range(log)
    /\ (exited /\ assetExists) => Last(log) = RemoveError
    /\ (exited /\ assetExists /\ pc = "Failed") => Len(log) = 2

\* a stage failed and then the removal failed: both reports are in the log
C2_Witness ==
    /\ exited /\ pc = "Failed" /\ assetExists /\ ~propagated
    /\ log = <<MainError(Last(visited)), RemoveError>>

\* C3: the stages run in the order Extracting, Loading, Analyzing, Smoothing,
\* Rendering; a stage starts only when all before it returned; a failure ends
\* the run in Failed with no later stage started; a run exits in Done or Failed
C3_StageOrder ==
    /\ IsPrefix(visited, StageOrder)
    /\ pc \in Stages =>
          /\ Len(visited) = StageIndex(pc) - 1
          /\ log = <<>>
    /\ pc = "Done" =>
          /\ visited = StageOrder
          /\ \A i \in 1..Len(log) : log[i].msg # "Error in main"
    /\ pc = "Failed" =>
          /\ visited # <<>>
          /\ \A i \in 1..Len(log) :
                log[i].msg = "Error in main" => (i = 1 /\ log[i].stage = Last(visited))
    /\ exited => pc \in {"Done", "Failed"}
    /\ (pc \notin Stages /\ ~input.has_audio) =>
          (pc = "Failed" /\ visited = <<"Extracting">>)

\* a video without an audio track: only the extraction ran
C3_Witness ==
    /\ exited /\ ~input.has_audio /\ pc = "Failed"
    /\ visited = <<"Extracting">> /\ log = <<MainError("Extracting")>>

----------------------------------------------------------------------------
(* Properties of plot_loudness (SpecPlot) *)

\* whether plot_loudness got as far as its highlight loop
ReachedHighlights(c) ==
    c.env.style_ok /\ Len(c.series.times) = Len(c.series.loudness)

\* C4: a highlight that fails is reported and skipped; every highlight is
\* evaluated once, in list order; the curve and both reference lines are
\* drawn; the render is aborted only for a reason other than a highlight
C4_HighlightFailureIsLocal ==
    (plCall.pc \in {"returned", "raised"} /\ ReachedHighlights(plCall)) =>
        LET n == Len(plCall.highlights)
            all == [i \in 1..n |-> i]
            Bad(i) == plCall.highlights[i].color \notin KnownColors
            Good(i) == ~Bad(i)
            good == SelectSeq(all, Good)
            r == plCall.ret
        IN  /\ r.evaluated = all
            /\ r.warnings = SelectSeq(all, Bad)
            /\ Len(r.drawn) = 3 + Len(good)
            /\ r.drawn[1].kind = "curve"
            /\ r.drawn[2].kind = "axhline" /\ r.drawn[2].y = -22
            /\ r.drawn[3].kind = "axhline" /\ r.drawn[3].y = -26
            /\ \A k \in 1..Len(good) :
                  /\ r.drawn[3 + k].kind = "fill"
                  /\ r.drawn[3 + k].index = good[k]
            /\ r.raised <=> (Len(plCall.series.times) = 0 \/ ~plCall.env.finish_ok)

\* three highlights, the middle one with a malformed colour: the render returns
C4_Witness ==
    /\ plCall.pc = "returned" /\ Len(plCall.highlights) = 3
    /\ plCall.ret.warnings = <<2>> /\ plCall.ret.evaluated = <<1, 2, 3>>
    /\ plCall.ret.saved

----------------------------------------------------------------------------
(* Properties of highlight_audio_section (SpecHighlight) *)

\* C5: the mask is as long as the series and is true at i exactly when
\* times[i] is in [start_time, end_time] and the value is beyond the threshold
\* in the direction of above; it is all false when no time is in the range;
\* the same range and threshold with the opposite direction marks no common index
C5_HighlightMask ==
    hlCall.pc = "returned" =>
        LET t == hlCall.series.times
            v == hlCall.series.loudness
            h == hlCall.h
            opp == HighlightCondition(t, v, [h EXCEPT !.above = ~h.above])
        IN  /\ Len(hlCall.where) = Len(t)
            /\ \A i \in 1..Len(t) :
                  hlCall.where[i] <=>
                      /\ t[i] >= h.start_time
                      /\ t[i] <= h.end_time
                      /\ IF h.above THEN v[i] > h.threshold ELSE v[i] < h.threshold
            /\ (~\E i \in 1..Len(t) : t[i] >= h.start_time /\ t[i] <= h.end_time)
                  => \A i \in 1..Len(t) : ~hlCall.where[i]
            /\ \A i \in 1..Len(t) : ~(hlCall.where[i] /\ opp[i])

\* a mask with a marked index, and an index in the range whose value equals
\* the threshold and is not marked
C5_Witness ==
    /\ hlCall.pc = "returned" /\ hlCall.h.above
    /\ \E i \in 1..Len(hlCall.where) : hlCall.where[i]
    /\ \E i \in 1..Len(hlCall.where) :
          /\ hlCall.series.times[i] >= hlCall.h.start_time
          /\ hlCall.series.times[i] <= hlCall.h.end_time
          /\ hlCall.series.loudness[i] = hlCall.h.threshold
          /\ ~hlCall.where[i]

----------------------------------------------------------------------------
(* Properties of compute_loudness (SpecLoudness) *)

\* the samples of audio at the 0-based indices lo .. hi - 1
SamplesAt(audio, lo, hi) == [j \in 1..(hi - lo) |-> audio[lo + j]]

\* C6: with frame_size >= 1, times and values have one length, the least n
\* with n * frame_size >= len(samples); frame i (from 0) is the samples at
\* [i * frame_size, min((i + 1) * frame_size, len)) and times[i] is
\* i * frame_size / sample_rate
C6_FrameSegmentation ==
    (clCall.pc = "returned" /\ clCall.frame_size >= 1) =>
        LET fs == clCall.frame_size
            len == Len(clCall.audio)
            n == Len(clCall.ret.times)
        IN  /\ Len(clCall.ret.loudness_db) = n
            /\ n * fs >= len
            /\ (n - 1) * fs < len \/ (n = 0 /\ len = 0)
            /\ \A i \in 1..n :
                  /\ clCall.ret.frames[i] =
                        SamplesAt(clCall.audio, (i - 1) * fs, Min(i * fs, len))
                  /\ clCall.ret.loudness_db[i].n = Min(i * fs, len) - (i - 1) * fs
                  /\ clCall.ret.times[i].num * clCall.sr
                        = (i - 1) * fs * clCall.ret.times[i].den

\* ten samples in frames of four: two whole frames and a trailing one of two
C6_Witness ==
    /\ clCall.pc = "returned" /\ clCall.frame_size = 4 /\ Len(clCall.audio) = 10
    /\ Len(clCall.ret.times) = 3 /\ Len(clCall.ret.frames[3]) = 2

\* C7: every value of the series is in [-100, 0] dB, and is exactly -100 for a
\* frame whose rms is below 1e-10
C7_ValuesWithinFloorAndZero ==
    clCall.pc = "returned" =>
        \A i \in 1..Len(clCall.ret.loudness_db) :
            LET v == clCall.ret.loudness_db[i]
            IN  /\ RmsBelowEps(v.ss, v.n) => DbIsFloor(v)
                /\ DbAtLeastFloor(v)
                /\ DbAtMostZero(v)

\* Python round(num / den) for den > 0: to the nearest integer, ties to even
PyRound(num, den) ==
    LET q == IF num >= 0 THEN num \div den ELSE -(((-num) + den - 1) \div den)
        r == num - q * den
    IN  IF 2 * r < den THEN q
        ELSE IF 2 * r > den THEN q + 1
        ELSE IF q % 2 = 0 THEN q ELSE q + 1

\* C10: compute_loudness never returns a series when
\* round(sample_rate * frame_duration) is below 1
C10_SmallFrameSizeFails ==
    (clCall.pc # "call"
     /\ PyRound(clCall.sr * clCall.frame_duration.num, clCall.frame_duration.den) < 1)
        => clCall.pc = "raised"

----------------------------------------------------------------------------
(* Properties of moving_average (SpecSmooth) *)

\* C8: for a window_size >= 1 the result has len(series) elements
C8_LengthPreserved ==
    (maCall.pc = "returned" /\ maCall.window_size >= 1) =>
        Len(maCall.ret) = Len(maCall.data)

\* C9: for an odd window_size = 2w + 1, window_size * result[i] is the sum of
\* series[j] over the valid j in [i - w, i + w], at every index i of the series
C9_ZeroPaddedCenteredMean ==
    (maCall.pc = "returned" /\ maCall.window_size % 2 = 1) =>
        LET w == (maCall.window_size - 1) \div 2
            n == Len(maCall.data)
        IN  /\ Len(maCall.ret) >= n
            /\ \A i \in 1..n :
                  maCall.window_size * maCall.ret[i].num
                      = SumRange(maCall.data, Max(0, i - 1 - w), Min(n - 1, i - 1 + w))
                            * maCall.ret[i].den
            /\ maCall.window_size = 1 =>
                  \A i \in 1..n : maCall.ret[i].num = maCall.data[i] * maCall.ret[i].den

====
